---- MODULE Spec2Model ----
(***************************************************************************)
(* A model of skultrafast.twoD_dataset.TwoDim: the construction of a 2D    *)
(* dataset from caller arrays, its copy-on-transform operations, the       *)
(* in-place background correction and the analysis entry points.           *)
(*                                                                         *)
(* numpy arrays are objects on a heap (mem): a dataset field holds the id  *)
(* of an array, so that aliasing, views and in-place writes are visible.   *)
(* An array is [shape, data] with data in row-major order.  Axis values    *)
(* are integers; signal values are exact rationals <<num, den>> (floating  *)
(* point rounding is not modelled).                                        *)
(***************************************************************************)
EXTENDS Integers, Sequences, FiniteSets, TLC

VARIABLES mem, arg, ds, cur, last, steps, info, dicts, pool, ffcf

vars == <<mem, arg, ds, cur, last, steps, info, dicts, pool, ffcf>>

(***************************************************************************)
(* Bounds of the model.                                                    *)
(***************************************************************************)
\* longest waiting-time axis the caller passes in
MaxT == 2
\* longest pump / probe axis the caller passes in
MaxWn == 2
\* number of operations applied after construction
MaxOps == 2
MaxSlopes == 3
MaxPr == 3

None == [tag |-> "None"]

(***************************************************************************)
(* Exact rational arithmetic.                                              *)
(***************************************************************************)
Abs(x) == IF x < 0 THEN -x ELSE x

RECURSIVE GCD(_, _)
GCD(a, b) == IF b = 0 THEN a ELSE GCD(b, a % b)

Rat(n, d) ==
    LET g == GCD(Abs(n), Abs(d))
        s == IF d < 0 THEN -1 ELSE 1
    IN  <<(s * n) \div g, (s * d) \div g>>

R(n) == <<n, 1>>
RAdd(x, y) == Rat(x[1] * y[2] + y[1] * x[2], x[2] * y[2])
RSub(x, y) == Rat(x[1] * y[2] - y[1] * x[2], x[2] * y[2])
RMul(x, y) == Rat(x[1] * y[1], x[2] * y[2])
RDiv(x, y) == Rat(x[1] * y[2], x[2] * y[1])
RNeg(x) == <<-x[1], x[2]>>
RLt(x, y) == x[1] * y[2] < y[1] * x[2]
RLe(x, y) == x[1] * y[2] <= y[1] * x[2]

RECURSIVE RSum(_)
RSum(s) == IF s = <<>> THEN R(0) ELSE RAdd(s[1], RSum(Tail(s)))

(***************************************************************************)
(* Sequences and n-dimensional arrays.                                     *)
(***************************************************************************)
RECURSIVE Prod(_)
Prod(s) == IF s = <<>> THEN 1 ELSE s[1] * Prod(Tail(s))

\* the subsequence of s at the positions idx (an ascending or permuted index list)
Take(s, idx) == [n \in 1..Len(idx) |-> s[idx[n]]]

\* the positions of s, ascending, whose element satisfies the mask
RECURSIVE Where(_)
Where(mask) ==
    IF mask = <<>> THEN <<>>
    ELSE LET r == Where(SubSeq(mask, 1, Len(mask) - 1))
         IN  IF mask[Len(mask)] THEN Append(r, Len(mask)) ELSE r

Arr1(s) == [shape |-> <<Len(s)>>, data |-> s]

\* numpy's ndarray.size
Size(a) == Prod(a.shape)

\* a[i, j, k] of a 3-dimensional array (1-based)
At3(a, i, j, k) == a.data[((i - 1) * a.shape[2] + (j - 1)) * a.shape[3] + k]

\* the 3-dimensional array a[ti, :, :][:, pri, :][:, :, pui] for index lists
Sel3(a, ti, pri, pui) ==
    LET n == Len(ti)
        m == Len(pri)
        k == Len(pui)
    IN  [shape |-> <<n, m, k>>,
         data  |-> [x \in 1..(n * m * k) |->
                      At3(a, ti[((x - 1) \div (m * k)) + 1],
                             pri[(((x - 1) \div k) % m) + 1],
                             pui[((x - 1) % k) + 1])]]

Iota(n) == [i \in 1..n |-> i]

\* np.argsort of a 1-dimensional array of distinct values
argsort(s) ==
    [n \in 1..Len(s) |->
        CHOOSE i \in 1..Len(s) : Cardinality({j \in 1..Len(s) : s[j] < s[i]}) = n - 1]

(***************************************************************************)
(* Array objects.  The heap mem maps the id of every live array object to  *)
(* its value.  An operation works on array handles [id, val]: Ref(m, id)   *)
(* is the existing object id, Fresh(a) a newly created object (id 0) that  *)
(* receives its id when the operation's result is bound.                   *)
(***************************************************************************)
Ref(m, id) == [id |-> id, val |-> m[id]]
Fresh(a) == [id |-> 0, val |-> a]

Store(m, id, a) == [x \in DOMAIN m \cup {id} |-> IF x = id THEN a ELSE m[x]]

\* ndarray_copy without the copy: the same object
ndarray_alias(a) == a

\* ndarray.copy(): a new object with the same contents
ndarray_copy(a) == Fresh(a.val)

(***************************************************************************)
(* skultrafast.utils.inbetween(a, lower, upper): the elementwise mask      *)
(* lower <= a <= upper, of the shape of a.                                 *)
(***************************************************************************)
inbetween(a, lower, upper) ==
    [shape |-> a.shape,
     data  |-> [i \in 1..Len(a.data) |-> a.data[i] >= lower /\ a.data[i] <= upper]]

\* numpy's ~mask
Invert(mask) == [shape |-> mask.shape, data |-> [i \in 1..Len(mask.data) |-> ~mask.data[i]]]

Min2(r) == IF r[1] <= r[2] THEN r[1] ELSE r[2]
Max2(r) == IF r[1] >= r[2] THEN r[1] ELSE r[2]

(***************************************************************************)
(* TwoDim.                                                                 *)
(***************************************************************************)
\* the attrs-generated __init__: the four arrays as given, every optional
\* field at its default
TwoDimFields(t, pump_wn, probe_wn, spec2d) ==
    [t |-> t, pump_wn |-> pump_wn, probe_wn |-> probe_wn, spec2d |-> spec2d,
     single_cls_result_ |-> None, cls_result_ |-> None, interpolator_ |-> None,
     exp_fit_result_ |-> None, fit_exp_result_ |-> None]

\* an exception leaves the call: nothing is returned
Raised == [ok |-> FALSE, obj |-> None]

\* the dataset self with its array fields as handles
Handles(m, self) ==
    [self EXCEPT !.t = Ref(m, self.t), !.pump_wn = Ref(m, self.pump_wn),
                 !.probe_wn = Ref(m, self.probe_wn), !.spec2d = Ref(m, self.spec2d)]

\* shape_differs with the element counts compared instead of the shapes
shape_differs_by_size(spec2d, n, m, k) == Size(spec2d.val) # n * m * k

\* the shape test of __attrs_post_init__: spec2d.shape != (n, m, k)
shape_differs(spec2d, n, m, k) == spec2d.val.shape # <<n, m, k>>

\* reordered with the pump slices left in their input order
reordered_probe_only(spec2d, i1, i2) ==
    Sel3(spec2d.val, Iota(spec2d.val.shape[1]), i2, Iota(spec2d.val.shape[3]))

\* spec2d[:, :, i1][:, i2, :]: the pump slices in the order i1, the probe
\* slices in the order i2
reordered(spec2d, i1, i2) == Sel3(spec2d.val, Iota(spec2d.val.shape[1]), i2, i1)

\* TwoDim(t, pump_wn, probe_wn, spec2d) on array handles: __init__ followed
\* by __attrs_post_init__.  The result is [ok, obj]; ok is FALSE when the
\* ValueError is raised.
attrs_post_init(t, pump_wn, probe_wn, spec2d) ==
    LET n == Size(t.val)
        m == Size(probe_wn.val)
        k == Size(pump_wn.val)
        i1 == argsort(ndarray_copy(pump_wn).val.data)
        i2 == argsort(ndarray_copy(probe_wn).val.data)
    IN  IF shape_differs(spec2d, n, m, k)
        THEN Raised
        ELSE [ok |-> TRUE,
              obj |-> TwoDimFields(
                        ndarray_copy(t),
                        Fresh(Arr1(Take(ndarray_copy(pump_wn).val.data, i1))),
                        Fresh(Arr1(Take(ndarray_copy(probe_wn).val.data, i2))),
                        Fresh(reordered(ndarray_copy(spec2d), i1, i2)))]

\* the dataset d with its optional fields as the call left them in s
Cached(d, s) ==
    [d EXCEPT !.single_cls_result_ = s.single_cls_result_,
              !.cls_result_ = s.cls_result_,
              !.interpolator_ = s.interpolator_,
              !.exp_fit_result_ = s.exp_fit_result_,
              !.fit_exp_result_ = s.fit_exp_result_]

\* copy handing out self instead of a new dataset
copy_self(self) == [ok |-> TRUE, obj |-> self]

\* copy with the optional fields of self carried over to the new dataset
copy_with_caches(self) ==
    LET c == attrs_post_init(self.t, self.pump_wn, self.probe_wn, self.spec2d)
    IN  IF c.ok THEN [ok |-> TRUE, obj |-> Cached(c.obj, self)] ELSE c

\* TwoDim.copy, self with handles
copy(self) == attrs_post_init(self.t, self.pump_wn, self.probe_wn, self.spec2d)

\* Python's `not a` of an ndarray a, as [ok, val]: the truth value of an array
\* of more than one element is a ValueError; that of an empty array is False
\* with a deprecation warning in older numpy builds and an error in newer ones.
NumpyBuilds == {"empty_is_false", "empty_is_error"}

not_array(a, build) ==
    IF Size(a) > 1 THEN [ok |-> FALSE, val |-> FALSE]
    ELSE IF Size(a) = 1 THEN [ok |-> TRUE, val |-> ~a.data[1]]
    ELSE IF build = "empty_is_error" THEN [ok |-> FALSE, val |-> FALSE]
    ELSE [ok |-> TRUE, val |-> TRUE]

\* a[b] of a 1-dimensional array for a Python bool b: a new leading axis of
\* length 1 (True) or 0 (False)
IndexBool1(a, b) ==
    [shape |-> <<(IF b THEN 1 ELSE 0)>> \o a.shape,
     data  |-> IF b THEN a.data ELSE <<>>]

\* a[:, pr, :][:, :, pu] of a 3-dimensional array for Python bools pr, pu:
\* each inserts an axis of length 1 or 0 at its position
IndexBool3(a, pr, pu) ==
    [shape |-> <<a.shape[1], (IF pr THEN 1 ELSE 0), (IF pu THEN 1 ELSE 0),
                 a.shape[2], a.shape[3]>>,
     data  |-> IF pr /\ pu THEN a.data ELSE <<>>]

\* range_mask with the endpoints taken in the order given
range_mask_as_given(axis, range) == inbetween(axis, range[1], range[2])

\* the mask of select_range: inbetween(axis, min(range), max(range))
range_mask(axis, range) == inbetween(axis, Min2(range), Max2(range))

\* TwoDim.select_range, self with handles
select_range(self, pump_range, probe_range, invert, build) ==
    LET pu_idx == range_mask(self.pump_wn.val, pump_range)
        pr_idx == range_mask(self.probe_wn.val, probe_range)
        npu == not_array(pu_idx, build)
        npr == not_array(pr_idx, build)
        c == copy(self)
        sp == c.obj.spec2d.val
    IN  IF invert /\ (~npu.ok \/ ~npr.ok) THEN Raised
        ELSE IF ~c.ok THEN Raised
        ELSE IF invert
        THEN [ok |-> TRUE,
              obj |-> [c.obj EXCEPT
                         !.spec2d = Fresh(IndexBool3(sp, npr.val, npu.val)),
                         !.pump_wn = Fresh(IndexBool1(c.obj.pump_wn.val, npu.val)),
                         !.probe_wn = Fresh(IndexBool1(c.obj.probe_wn.val, npr.val))]]
        ELSE [ok |-> TRUE,
              obj |-> [c.obj EXCEPT
                         !.spec2d = Fresh(Sel3(sp, Iota(sp.shape[1]), Where(pr_idx.data),
                                               Where(pu_idx.data))),
                         !.pump_wn = Fresh(Arr1(Take(c.obj.pump_wn.val.data,
                                                     Where(pu_idx.data)))),
                         !.probe_wn = Fresh(Arr1(Take(c.obj.probe_wn.val.data,
                                                      Where(pr_idx.data))))]]

\* TwoDim.select_t_range, self with handles
select_t_range(self, t_min, t_max) ==
    LET idx == inbetween(self.t.val, t_min, t_max)
        c == copy(self)
        sp == c.obj.spec2d.val
    IN  IF ~c.ok THEN Raised
        ELSE [ok |-> TRUE,
              obj |-> [c.obj EXCEPT
                         !.t = Fresh(Arr1(Take(c.obj.t.val.data, Where(idx.data)))),
                         !.spec2d = Fresh(Sel3(sp, Where(idx.data), Iota(sp.shape[2]),
                                               Iota(sp.shape[3])))]]

(***************************************************************************)
(* scipy.ndimage filters, mode='nearest'.                                  *)
(***************************************************************************)
Clamp(i, n) == IF i < 1 THEN 1 ELSE IF i > n THEN n ELSE i

\* the index triple of flat position x of a 3-dimensional array
Idx3(a, x) ==
    <<((x - 1) \div (a.shape[2] * a.shape[3])) + 1,
      (((x - 1) \div a.shape[3]) % a.shape[2]) + 1,
      ((x - 1) % a.shape[3]) + 1>>

\* uniform_filter1d along one axis: the mean of the window of `size` cells
\* that starts size // 2 cells before the cell, edge cells repeated
uniform_filter1d(a, size, axis) ==
    [shape |-> a.shape,
     data  |-> [x \in 1..Len(a.data) |->
                  LET c == Idx3(a, x)
                      src(w) == [c EXCEPT ![axis] =
                                    Clamp(c[axis] - (size \div 2) + w, a.shape[axis])]
                  IN  RDiv(RSum([w \in 1..size |->
                                   At3(a, src(w - 1)[1], src(w - 1)[2], src(w - 1)[3])]),
                           R(size))]]

\* uniform_filter: one pass per axis whose size exceeds 1, in axis order
uniform_filter(a, size) ==
    LET f1 == IF size[1] > 1 THEN uniform_filter1d(a, size[1], 1) ELSE a
        f2 == IF size[2] > 1 THEN uniform_filter1d(f1, size[2], 2) ELSE f1
    IN  IF size[3] > 1 THEN uniform_filter1d(f2, size[3], 3) ELSE f2

\* gaussian_filter skips every axis whose sigma is (numerically) zero; a
\* positive sigma has irrational weights and is outside the model
gaussian_filter(a, sigma) == a

\* the (kind, size) arguments of apply_filter the model draws from
FilterArgs ==
    {<<"uniform", <<2, 1>>>>, <<"uniform", <<1, 2>>>>, <<"uniform", <<2, 1, 1>>>>,
     <<"gaussian", <<0, 0, 0>>>>, <<"median", <<1, 1>>>>}

\* TwoDim.apply_filter, self with handles.  on_empty: whether the ndimage
\* routine accepts an array without elements (it then returns one of the
\* same shape) or raises.
apply_filter(self, kind, size, on_empty) ==
    LET filtered == copy(self)
        size3 == IF Len(size) = 2 THEN <<1, size[1], size[2]>> ELSE size
        works == Size(self.spec2d.val) > 0 \/ on_empty
    IN  IF ~filtered.ok THEN Raised
        ELSE IF kind = "uniform"
        THEN IF ~works THEN Raised
             ELSE [ok |-> TRUE,
                   obj |-> [filtered.obj EXCEPT
                              !.spec2d = Fresh(uniform_filter(self.spec2d.val, size3))]]
        ELSE IF kind = "gaussian"
        THEN [ok |-> TRUE,
              obj |-> [filtered.obj EXCEPT
                         !.spec2d = Fresh(gaussian_filter(self.spec2d.val, size3))]]
        ELSE filtered

(***************************************************************************)
(* np.polyfit followed by np.polyval, for degrees 0 and 1: the value at x  *)
(* of the least-squares polynomial through (xs[i], ys[i]).  With a single  *)
(* point and degree 1 the system is rank deficient and lstsq returns the   *)
(* minimum-norm solution of the column-scaled system.                      *)
(***************************************************************************)
Degs == {0, 1}

RECURSIVE ISum(_)
ISum(s) == IF s = <<>> THEN 0 ELSE s[1] + ISum(Tail(s))

polyfit_polyval(xs, ys, deg, x) ==
    LET n == Len(xs)
        sy == RSum(ys)
        sx == ISum(xs)
        sxx == ISum([i \in 1..n |-> xs[i] * xs[i]])
        sxy == RSum([i \in 1..n |-> RMul(R(xs[i]), ys[i])])
        slope == RDiv(RSub(RMul(R(n), sxy), RMul(R(sx), sy)), R(n * sxx - sx * sx))
        icept == RDiv(RSub(sy, RMul(slope, R(sx))), R(n))
    IN  IF deg = 0 THEN RDiv(sy, R(n))
        ELSE IF n = 1
        THEN RAdd(RDiv(ys[1], R(2)), RDiv(RMul(ys[1], R(x)), R(2 * xs[1])))
        ELSE RAdd(icept, RMul(slope, R(x)))

\* TwoDim.background_correction, self with handles: [ok, val], val the
\* contents of the object self.spec2d after the call (the subtraction is in
\* place, through a view of each column)
background_correction(self, excluded_range, deg) ==
    LET probe == self.probe_wn.val
        sp == self.spec2d.val
        wn_range == Invert(inbetween(probe, excluded_range[1], excluded_range[2]))
        sel == Where(wn_range.data)
        xs == Take(probe.data, sel)
        line(ti, pi) == [j \in 1..sp.shape[2] |-> At3(sp, ti, j, pi)]
        corrected ==
            [sp EXCEPT !.data =
                [x \in 1..Len(sp.data) |->
                   LET c == Idx3(sp, x)
                   IN  RSub(sp.data[x],
                            polyfit_polyval(xs, Take(line(c[1], c[3]), sel), deg,
                                            probe.data[c[2]]))]]
    IN  IF sp.shape[1] = 0 \/ sp.shape[3] = 0 THEN [ok |-> TRUE, val |-> sp]
        ELSE IF sel = <<>> THEN [ok |-> FALSE, val |-> sp]
        ELSE [ok |-> TRUE, val |-> corrected]

(***************************************************************************)
(* Analysis.  An analysis operation returns [ok, ret, self]: whether it    *)
(* returned, the value it returned, and the dataset's non-array fields     *)
(* after the call (also after an exception).                               *)
(***************************************************************************)
\* whether the arrays of self have the shapes the analysis code is written
\* for: one-dimensional axes and a spec2d of shape (len(t), len(probe_wn),
\* len(pump_wn))
Regular(self) ==
    /\ Len(self.t.val.shape) = 1
    /\ Len(self.pump_wn.val.shape) = 1
    /\ Len(self.probe_wn.val.shape) = 1
    /\ self.spec2d.val.shape = <<Size(self.t.val), Size(self.probe_wn.val),
                                 Size(self.pump_wn.val)>>

\* dv.fi(arr, value): the index (1-based) of the element of arr nearest to
\* value, the first one on a tie; value is a rational
fi(a, value) ==
    LET dist(i) == Abs(a.data[i] * value[2] - value[1])
    IN  CHOOSE i \in 1..Len(a.data) :
          \A j \in 1..Len(a.data) : dist(i) < dist(j) \/ (dist(i) = dist(j) /\ i <= j)

\* TwoDim.t_idx
t_idx(self, t) == fi(self.t.val, t)

\* np.argmin of a non-empty sequence of rationals: the first minimum
argmin(s) ==
    CHOOSE i \in 1..Len(s) :
      \A j \in 1..Len(s) : RLt(s[i], s[j]) \/ (s[i] = s[j] /\ i <= j)

\* np.argmax of a non-empty sequence of rationals: the first maximum
argmax(s) ==
    CHOOSE i \in 1..Len(s) :
      \A j \in 1..Len(s) : RLt(s[j], s[i]) \/ (s[i] = s[j] /\ i <= j)

\* spec2d[ti, :, pu]: the signal along the probe axis
probe_line(sp, ti, pu) == [j \in 1..sp.shape[2] |-> At3(sp, ti, j, pu)]

\* spec2d[ti, pr, :]: the signal along the pump axis
pump_line(sp, ti, pr) == [j \in 1..sp.shape[3] |-> At3(sp, ti, pr, j)]

\* a window argument of single_cls: a float r (r away from the maximum, both
\* ends excluded) or a tuple (lower, upper) (both ends included)
window(axis, centre, range) ==
    IF range[1] = "float"
    THEN [i \in 1..Len(axis.data) |->
            axis.data[i] < centre + range[2] /\ axis.data[i] > centre - range[2]]
    ELSE inbetween(axis, range[2][1], range[2][2]).data

\* np.average(pr[pr_idx], weights=s[pr_idx]) as [ok, val]; weights that sum
\* to zero are a ZeroDivisionError
average(xs, ws) ==
    LET tot == RSum(ws)
    IN  IF tot[1] = 0 THEN [ok |-> FALSE, val |-> R(0)]
        ELSE [ok |-> TRUE,
              val |-> RDiv(RSum([i \in 1..Len(xs) |-> RMul(R(xs[i]), ws[i])]), tot)]

\* the centre of mass of one pump slice s of single_cls (method 'com')
cen_of_m(pr, s, pr_range) ==
    LET pr_idx == Where(window(pr, pr.data[argmin(s)], pr_range))
    IN  average(Take(pr.data, pr_idx), Take(s, pr_idx))

\* WLS(y, add_constant(x), weights=1).fit().params for x of mean zero:
\* add_constant puts the column of ones first, so params[0] (here [1]) is the
\* constant term and params[1] (here [2]) the coefficient of x.  With one
\* point x is <<0>> and the pseudo-inverse gives <<y, 0>>.
wls_params(x, y) ==
    LET n == Len(x)
        sxx == RSum([i \in 1..n |-> RMul(x[i], x[i])])
        sxy == RSum([i \in 1..n |-> RMul(x[i], y[i])])
    IN  IF n = 1 THEN <<y[1], R(0)>>
        ELSE <<RDiv(RSum(y), R(n)), RDiv(sxy, sxx)>>

\* the (pr_range, pu_range) arguments of single_cls and cls the model draws
\* from: the defaults, and a pump window of one point
ClsArgs ==
    {<<<<"float", 9>>, <<"float", 7>>>>, <<<<"float", 9>>, <<"tuple", <<1, 1>>>>>>}

\* an exception leaves an analysis call: the fields of self stay as they are
Fails(self) == [ok |-> FALSE, ret |-> None, self |-> self]

\* TwoDim.single_cls(t, pr_range, pu_range), mode 'neg', method 'com', on a
\* regular dataset
single_cls(self, t, pr_range, pu_range) ==
    LET pu == self.pump_wn.val
        pr == self.probe_wn.val
        sp == self.spec2d.val
        ti == t_idx(self, t)
        mins == [p \in 1..Len(pu.data) |->
                   probe_line(sp, ti, p)[argmin(probe_line(sp, ti, p))]]
        pu_max == pu.data[argmin(mins)]
        pu_idx == Where(window(pu, pu_max, pu_range))
        mean == Rat(ISum(Take(pu.data, pu_idx)), Len(pu_idx))
        x == [j \in 1..Len(pu_idx) |-> RSub(R(pu.data[pu_idx[j]]), mean)]
        l == [j \in 1..Len(pu_idx) |-> cen_of_m(pr, probe_line(sp, ti, pu_idx[j]), pr_range)]
        y == [j \in 1..Len(pu_idx) |-> l[j].val]
        params == wls_params(x, y)
        ret == [pump_wn |-> [j \in 1..Len(x) |-> RAdd(x[j], mean)],
                max_pos |-> y,
                slope |-> params[1],
                reg_result |-> [params |-> params],
                recentered_pump_wn |-> x]
    IN  IF Size(self.t.val) = 0 \/ Size(pu) = 0 \/ Size(pr) = 0 THEN Fails(self)
        ELSE IF pu_idx = <<>> THEN Fails(self)
        ELSE IF \E j \in 1..Len(pu_idx) : ~l[j].ok THEN Fails(self)
        ELSE [ok |-> TRUE, ret |-> ret,
              self |-> [self EXCEPT !.single_cls_result_ = ret]]

\* floats that are not rationals, and Python's None in a slot that otherwise
\* holds a float
Inf == <<1, 0>>
NaN == <<0, 0>>
Unset == <<>>

\* np.isfinite of a float
isfinite(x) == x[2] # 0

\* WLS(y, add_constant(x), weights=w).fit().params in general: the weighted
\* least-squares line through (x, y), constant term first; one point gives
\* <<y, 0>> (pseudo-inverse)
wls_fit(x, y, w) ==
    LET n == Len(x)
        Sw == RSum(w)
        Swx == RSum([i \in 1..n |-> RMul(w[i], x[i])])
        Swy == RSum([i \in 1..n |-> RMul(w[i], y[i])])
        Swxx == RSum([i \in 1..n |-> RMul(w[i], RMul(x[i], x[i]))])
        Swxy == RSum([i \in 1..n |-> RMul(w[i], RMul(x[i], y[i]))])
        D == RSub(RMul(Sw, Swxx), RMul(Swx, Swx))
        slope == RDiv(RSub(RMul(Sw, Swxy), RMul(Swx, Swy)), D)
    IN  IF \E i \in 1..n : ~isfinite(w[i]) THEN <<NaN, NaN>>
        ELSE IF n = 1 THEN <<y[1], R(0)>>
        ELSE <<RDiv(RSub(Swy, RMul(slope, Swx)), Sw), slope>>

\* 1 / yerr**2 of one error: nan for nan, 0 for inf, inf for 0
inv_sq(e) ==
    IF e = NaN THEN NaN
    ELSE IF ~isfinite(e) THEN R(0)
    ELSE IF e[1] = 0 THEN Inf
    ELSE RDiv(R(1), RMul(e, e))

\* the test with "some" in place of "all"
any_err_valid(yerr) == \E j \in 1..Len(yerr) : isfinite(yerr[j])

\* all_err_valid = np.isfinite(yerr).all()
all_err_valid(yerr) == \A j \in 1..Len(yerr) : isfinite(yerr[j])

\* r = WLS(y, add_constant(x), weights=1 / yerr**2).fit() if all_err_valid
\* else OLS(y, add_constant(x)).fit(): the regression result with the model
\* it was fitted by
regression(x, y, yerr) ==
    IF all_err_valid(yerr)
    THEN [model |-> "WLS",
          weights |-> [j \in 1..Len(yerr) |-> inv_sq(yerr[j])],
          params |-> wls_fit(x, y, [j \in 1..Len(yerr) |-> inv_sq(yerr[j])])]
    ELSE [model |-> "OLS",
          weights |-> [j \in 1..Len(yerr) |-> R(1)],
          params |-> wls_fit(x, y, [j \in 1..Len(yerr) |-> R(1)])]

\* where the fitted centre of the GaussianModel ends up: the parameter is
\* bounded to the window, the model takes the lower end of the window or the
\* position of the slice's minimum
Centres == {"lower", "peak"}

\* what lmfit reports as the stderr of 'center' for one slice
CentreStderrs == {Unset, R(1), R(2)}

\* the pump indices single_cls selects at waiting time t
pu_idx_of(self, t, pu_range) ==
    LET pu == self.pump_wn.val
        sp == self.spec2d.val
        ti == t_idx(self, t)
        mins == [p \in 1..Len(pu.data) |->
                   probe_line(sp, ti, p)[argmin(probe_line(sp, ti, p))]]
    IN  Where(window(pu, pu.data[argmin(mins)], pu_range))

\* the probe indices of the window of the slice at pump index u
pr_idx_of(self, t, u, pr_range) ==
    LET pr == self.probe_wn.val
        s == probe_line(self.spec2d.val, t_idx(self, t), u)
    IN  Where(window(pr, pr.data[argmin(s)], pr_range))

\* whether single_cls(method='fit') raises before the regression: an empty
\* axis or pump window, weights of np.average that sum to zero, or a window
\* of fewer points than the three varying parameters of the GaussianModel
\* (the least-squares routine refuses it)
locator_raises(self, t, pr_range, pu_range) ==
    \/ Size(self.t.val) = 0 \/ Size(self.pump_wn.val) = 0 \/ Size(self.probe_wn.val) = 0
    \/ \E pu_idx \in {pu_idx_of(self, t, pu_range)} :
         \/ pu_idx = <<>>
         \/ \E j \in 1..Len(pu_idx) :
              \/ Len(pr_idx_of(self, t, pu_idx[j], pr_range)) < 3
              \/ ~cen_of_m(self.probe_wn.val,
                           probe_line(self.spec2d.val, t_idx(self, t), pu_idx[j]),
                           pr_range).ok

\* TwoDim.single_cls(t, pr_range, pu_range, method='fit') on a regular
\* dataset; stderrs[j] is the stderr lmfit reports for the j-th selected
\* slice
\* the SingleCLSResult built from the recentred pump points x (mean taken
\* off), the positions y and their errors yerr
single_cls_result(x, mean, y, yerr) ==
    CHOOSE ret \in {[pump_wn |-> [j \in 1..Len(x) |-> RAdd(x[j], mean)],
                     max_pos |-> y,
                     max_pos_err |-> yerr,
                     slope |-> r.params[1],
                     reg_result |-> r,
                     recentered_pump_wn |-> x] : r \in {regression(x, y, yerr)}} : TRUE

single_cls_fit(self, t, pr_range, pu_range, centre, stderrs) ==
    LET pu == self.pump_wn.val
        pr == self.probe_wn.val
        sp == self.spec2d.val
        ti == t_idx(self, t)
        mean(pu_idx) == Rat(ISum(Take(pu.data, pu_idx)), Len(pu_idx))
        val(u) == IF centre = "peak" THEN R(pr.data[argmin(probe_line(sp, ti, u))])
                  ELSE R(pr.data[pr_idx_of(self, t, u, pr_range)[1]])
    IN  IF locator_raises(self, t, pr_range, pu_range) THEN Fails(self)
        ELSE CHOOSE out \in
               {[ok |-> TRUE, ret |-> ret,
                 self |-> [self EXCEPT !.single_cls_result_ = ret]] :
                  ret \in {single_cls_result(
                             [j \in 1..Len(pu_idx) |->
                                RSub(R(pu.data[pu_idx[j]]), mean(pu_idx))],
                             mean(pu_idx),
                             [j \in 1..Len(pu_idx) |-> val(pu_idx[j])],
                             [j \in 1..Len(pu_idx) |->
                                IF stderrs[j] = Unset THEN NaN ELSE stderrs[j]]) :
                           pu_idx \in {pu_idx_of(self, t, pu_range)}}} : TRUE

\* how joblib.Parallel(n_jobs=-1) runs the calls: in worker processes, each
\* on a pickled copy of self, or in this process (a single CPU)
JoblibBackends == {"processes", "sequential"}

\* the rest of cls, res[i] being the outcome of single_cls at t[i]: the calls
\* run in axis order up to the first that raises; run in this process, each
\* call leaves its result in self.single_cls_result_
cls_collect(self, res, backend) ==
    LET bad == {i \in 1..Len(res) : ~res[i].ok}
        done == IF bad = {} THEN Len(res)
                ELSE (CHOOSE i \in bad : \A j \in bad : i <= j) - 1
        after == IF backend = "sequential" /\ done > 0 THEN res[done].self ELSE self
        ret == [wt |-> self.t.val.data,
                slopes |-> [i \in 1..done |-> res[i].ret.reg_result.params[2]],
                intercepts |-> [i \in 1..done |-> res[i].ret.reg_result.params[1]]]
    IN  IF bad # {} THEN Fails(after)
        ELSE [ok |-> TRUE, ret |-> ret, self |-> [after EXCEPT !.cls_result_ = ret]]

\* TwoDim.cls(pr_range=..., pu_range=...) on a regular dataset
cls(self, pr_range, pu_range, backend) ==
    CHOOSE out \in {cls_collect(self, res, backend) :
                      res \in {[i \in 1..Len(self.t.val.data) |->
                                  single_cls(self, R(self.t.val.data[i]),
                                             pr_range, pu_range)]}} : TRUE

\* what scipy's RegularGridInterpolator accepts as a grid: every build takes
\* strictly ascending axes; builds differ on strictly descending axes and on
\* axes without points
ScipyBuilds == {"ascending_only", "monotonic"}

StrictlyAscending(s) == \A i \in 1..(Len(s) - 1) : s[i] < s[i + 1]
StrictlyDescending(s) == \A i \in 1..(Len(s) - 1) : s[i] > s[i + 1]

\* TwoDim._make_int: whether RegularGridInterpolator((t, probe_wn, pump_wn),
\* spec2d) is built rather than a ValueError raised
make_int_ok(self, build) ==
    \A f \in {"t", "probe_wn", "pump_wn"} :
        LET axis == self[f].val.data
        IN  IF axis = <<>> THEN build = "monotonic"
            ELSE \/ StrictlyAscending(axis)
                 \/ build = "monotonic" /\ StrictlyDescending(axis)

\* the interpolator object: it reads the grid and the values from the arrays
\* of the dataset it was made for
Interpolator == [tag |-> "RegularGridInterpolator"]

\* TwoDim.diag_and_antidiag(t) with offset and p left at None, on a regular
\* dataset.  The interpolated values diag and antidiag are not part of ret.
diag_and_antidiag(self, t, build) ==
    LET pu == self.pump_wn.val
        pr == self.probe_wn.val
        sp == self.spec2d.val
        spec_i == t_idx(self, t)
        cached == [self EXCEPT !.interpolator_ =
                      IF self.interpolator_ = None THEN Interpolator ELSE @]
        mins1 == [p \in 1..Len(pu.data) |->
                    probe_line(sp, spec_i, p)[argmin(probe_line(sp, spec_i, p))]]
        mins0 == [q \in 1..Len(pr.data) |->
                    pump_line(sp, spec_i, q)[argmin(pump_line(sp, spec_i, q))]]
        offset == pu.data[argmin(mins1)] - pr.data[argmin(mins0)]
        p == pr.data[argmin(mins0)]
        ret == [offset |-> offset, p |-> p,
                diag_coords |-> [j \in 1..Len(pr.data) |-> pr.data[j] + offset],
                antidiag_coords |-> [j \in 1..Len(pr.data) |-> -pr.data[j] + 2 * p + offset]]
    IN  IF Size(self.t.val) = 0 THEN Fails(self)
        ELSE IF self.interpolator_ = None /\ ~make_int_ok(self, build) THEN Fails(self)
        ELSE IF Size(pu) = 0 \/ Size(pr) = 0 THEN Fails(cached)
        ELSE [ok |-> TRUE, ret |-> ret, self |-> cached]

\* np.ptp(d, axis=0) of d = spec2d[ti, :, :]: per pump point, the largest
\* minus the smallest signal along the probe axis
ptp0(sp, ti) ==
    [p \in 1..sp.shape[3] |->
        RSub(probe_line(sp, ti, p)[argmax(probe_line(sp, ti, p))],
             probe_line(sp, ti, p)[argmin(probe_line(sp, ti, p))])]

\* TwoDim.pump_slice_amp(t, bg_correct) on a regular dataset
pump_slice_amp(self, t, bg_correct) ==
    LET sp == self.spec2d.val
        diag == ptp0(sp, t_idx(self, t))
        base == RDiv(RAdd(diag[1], diag[Len(diag)]), R(2))
    IN  IF Size(self.t.val) = 0 \/ sp.shape[2] = 0 THEN Fails(self)
        ELSE IF ~bg_correct THEN [ok |-> TRUE, ret |-> diag, self |-> self]
        ELSE IF sp.shape[3] = 0 THEN Fails(self)
        ELSE [ok |-> TRUE, ret |-> [j \in 1..Len(diag) |-> RSub(diag[j], base)],
              self |-> self]

\* np.trapz(ys, xs) along one axis
trapz(ys, xs) ==
    RSum([i \in 1..(Len(xs) - 1) |->
            RDiv(RMul(R(xs[i + 1] - xs[i]), RAdd(ys[i], ys[i + 1])), R(2))])

\* TwoDim.integrate_pump(lower, upper) on a regular dataset: the fields
\* handed to TimeResSpec
integrate_pump(self, lower, upper) ==
    LET sp == self.spec2d.val
        pu_idx == Where(inbetween(self.pump_wn.val, lower, upper).data)
        xs == Take(self.pump_wn.val.data, pu_idx)
        data == [x \in 1..(sp.shape[1] * sp.shape[2]) |->
                   trapz(Take(pump_line(sp, ((x - 1) \div sp.shape[2]) + 1,
                                        ((x - 1) % sp.shape[2]) + 1), pu_idx), xs)]
    IN  [ok |-> TRUE,
         ret |-> [wl |-> self.probe_wn.val.data, t |-> self.t.val.data,
                  data |-> [shape |-> <<sp.shape[1], sp.shape[2]>>, data |-> data]],
         self |-> self]

\* TwoDim.integrate_reg(pump_range, probe_range) on a regular dataset
integrate_reg(self, pump_range, probe_range) ==
    LET sp == self.spec2d.val
        pr == Where(range_mask(self.probe_wn.val,
                               IF probe_range = None THEN pump_range ELSE probe_range).data)
        pu == Where(range_mask(self.pump_wn.val, pump_range).data)
        over_pump(ti) ==
            [j \in 1..Len(pr) |->
                trapz(Take(pump_line(sp, ti, pr[j]), pu), Take(self.pump_wn.val.data, pu))]
    IN  [ok |-> TRUE,
         ret |-> [ti \in 1..sp.shape[1] |->
                    trapz(over_pump(ti), Take(self.probe_wn.val.data, pr))],
         self |-> self]

\* the positions (1-based) that the Python slice(start, stop) selects from a
\* sequence of length n: a negative start counts from the end
pyslice(n, start, stop) ==
    LET lo == IF start < 0 THEN (IF n + start < 0 THEN 0 ELSE n + start)
              ELSE (IF start > n THEN n ELSE start)
        hi == IF stop > n THEN n ELSE stop
    IN  [i \in 1..(IF hi > lo THEN hi - lo ELSE 0) |-> lo + i]

\* TwoDim.get_minmax(t, com) on a regular dataset
get_minmax(self, t, com) ==
    LET sp == self.spec2d.val
        pr == self.probe_wn.val.data
        pu == self.pump_wn.val.data
        ti == t_idx(self, t)
        flat == [x \in 1..(sp.shape[2] * sp.shape[3]) |->
                   sp.data[(ti - 1) * sp.shape[2] * sp.shape[3] + x]]
        min_pos == <<(argmin(flat) - 1) \div sp.shape[3], (argmin(flat) - 1) % sp.shape[3]>>
        max_pos == <<(argmax(flat) - 1) \div sp.shape[3], (argmax(flat) - 1) % sp.shape[3]>>
        min1 == [q \in 1..Len(pr) |-> pump_line(sp, ti, q)[argmin(pump_line(sp, ti, q))]]
        max1 == [q \in 1..Len(pr) |-> pump_line(sp, ti, q)[argmax(pump_line(sp, ti, q))]]
        min0 == [p \in 1..Len(pu) |-> probe_line(sp, ti, p)[argmin(probe_line(sp, ti, p))]]
        max0 == [p \in 1..Len(pu) |-> probe_line(sp, ti, p)[argmax(probe_line(sp, ti, p))]]
        around(axis, ws, pos) ==
            average(Take(axis, pyslice(Len(axis), pos - com, pos + com + 1)),
                    Take(ws, pyslice(Len(axis), pos - com, pos + com + 1)))
        probe_min == IF com > 0 THEN around(pr, min1, min_pos[1])
                     ELSE [ok |-> TRUE, val |-> R(pr[min_pos[1] + 1])]
        probe_max == IF com > 0 THEN around(pr, max1, max_pos[1])
                     ELSE [ok |-> TRUE, val |-> R(pr[max_pos[1] + 1])]
        pump_min == IF com > 0 THEN around(pu, min0, min_pos[2])
                    ELSE [ok |-> TRUE, val |-> R(pu[min_pos[2] + 1])]
        pump_max == IF com > 0 THEN around(pu, max0, max_pos[2])
                    ELSE [ok |-> TRUE, val |-> R(pu[max_pos[2] + 1])]
        psa == pump_slice_amp(self, t, TRUE)
    IN  IF Size(self.t.val) = 0 \/ Size(sp) = 0 THEN Fails(self)
        ELSE IF ~probe_min.ok \/ ~probe_max.ok \/ ~pump_min.ok \/ ~pump_max.ok
        THEN Fails(self)
        ELSE IF ~psa.ok THEN Fails(self)
        ELSE [ok |-> TRUE,
              ret |-> [ProbeMin |-> probe_min.val, ProbeMax |-> probe_max.val,
                       PSAMax |-> pu[argmax(psa.ret)],
                       PumpMin |-> pump_min.val, PumpMax |-> pump_max.val,
                       Anh |-> RSub(probe_min.val, probe_max.val)],
              self |-> self]

\* a fitted quantity whose value the model does not compute
Fitted(kind, start) == [tag |-> kind, start |-> start]

\* the decay times handed to fit_taus and fit_das
Taus == {<<1>>, <<1, 10>>}

\* TwoDim.fit_taus(taus) on a regular dataset; lstsq_ok: whether
\* np.linalg.lstsq returns (it has to for a system with data)
fit_taus(self, taus, lstsq_ok) ==
    IF Size(self.spec2d.val) = 0 /\ ~lstsq_ok THEN Fails(self)
    ELSE [ok |-> TRUE, ret |-> Fitted("fit_taus", taus), self |-> self]

\* TwoDim.fit_das(taus, fix_last_decay) on a regular dataset; lmfit_ok:
\* whether the minimizer returns.  The result is stored in fit_exp_result_.
fit_das(self, taus, fix_last_decay, lmfit_ok) ==
    IF ~lmfit_ok \/ ~fit_taus(self, taus, lmfit_ok).ok \/ ~copy(self).ok THEN Fails(self)
    ELSE [ok |-> TRUE, ret |-> Fitted("ExpFit2DResult", taus),
          self |-> [self EXCEPT !.fit_exp_result_ = Fitted("ExpFit2DResult", taus)]]

\* what a fit of fit_gauss puts into fit_out.spec2d: the model does not
\* compute the fit, the best fit is the data itself or the zero surface
BestFits == {"data", "zero"}

best_fit(sp, fit) ==
    IF fit = "data" THEN sp
    ELSE [sp EXCEPT !.data = [x \in 1..Len(sp.data) |-> R(0)]]

\* what lmfit reports as the stderr of the varying parameter 'corr' after
\* one fit: nothing when the error bars could not be estimated, or a number
Stderrs == {Unset, R(1)}

\* res.params of one fit of fit_gauss, as far as the model follows it: the
\* varying parameter 'corr' and the parameter 'k', which fit_gauss fixes
\* (vary=False).  When lmfit estimates error bars it first sets the stderr
\* of every parameter to 0 and then fills in the varying ones, so a fixed
\* parameter reports 0; without error bars every stderr is None.
GaussParams == {"corr", "k"}

gauss_params(stderr) ==
    [corr |-> [value |-> Rat(2, 5), stderr |-> stderr],
     k |-> [value |-> R(1), stderr |-> IF stderr = Unset THEN Unset ELSE R(0)]]

\* err = p[pname].stderr or np.inf: the stderr unless it is falsy (None or
\* 0.0; nan is truthy)
stderr_or_inf(stderr) ==
    IF stderr = Unset \/ (stderr[1] = 0 /\ stderr[2] # 0) THEN Inf ELSE stderr

\* TwoDim.fit_gauss() on a regular dataset, as [ok, ret, self, out]: out is
\* the handle of fit_out.spec2d, the array the fitted surfaces are written
\* into; stderrs[i] is what the i-th fit reports for 'corr'.  ret carries the
\* fields of the GaussResult and val_dict, the series the loop has built
\* when the return statement is reached.
fit_gauss(self, fit, lmfit_ok, stderrs) ==
    LET mm == get_minmax(self, <<3, 10>>, 3)
        psa == pump_slice_amp(self, <<3, 10>>, TRUE)
        fit_out == copy(self)
        out == [id |-> fit_out.obj.spec2d.id, val |-> best_fit(self.spec2d.val, fit)]
        n == Len(self.t.val.data)
        results == [i \in 1..n |-> gauss_params(stderrs[i])]
        val_dict == [corr |-> [i \in 1..n |-> results[i].corr.value],
                     corr_stderr |-> [i \in 1..n |-> stderr_or_inf(results[i].corr.stderr)],
                     k |-> [i \in 1..n |-> results[i].k.value],
                     k_stderr |-> [i \in 1..n |-> stderr_or_inf(results[i].k.stderr)]]
        ret == [results |-> results, fit_out |-> out.val, slopes |-> val_dict.corr,
                slope_errors |-> val_dict.corr_stderr, wt |-> self.t.val.data,
                val_dict |-> val_dict]
    IN  IF ~lmfit_ok \/ ~mm.ok \/ ~psa.ok \/ ~fit_out.ok
        THEN [ok |-> FALSE, ret |-> None, self |-> self, out |-> Fresh(<<>>)]
        ELSE [ok |-> TRUE, ret |-> ret, self |-> self, out |-> out]

\* what the path handed to save_txt is on disk
PathKinds == {"absent", "file", "dir"}

\* the guard of save_txt_raises with the test on the wrong case: only a path
\* that does not exist is refused
save_txt_raises_if_absent(kind) == kind = "absent"

\* if not p.is_dir() or p.mkdir(parents=True, exist_ok=True): raise.
\* mkdir returns None, so the test is "p is not a directory".
save_txt_raises(kind) == kind # "dir"

\* the call save_single_txt(p / f'wt_{t[i]:.3f}ps.txt', i) for the 1-based
\* index k: i is k - 1, the file is named after t[i]
save_single_txt_call(self, k) == [i |-> k - 1, fname |-> self.t.val.data[k]]

\* TwoDim.save_txt(pname) as the set of its outcomes; written lists the
\* save_single_txt calls carried out.  On a regular dataset every call
\* returns; on other arrays t[i] or np.block may raise at any index, after
\* the files before it were written.
save_txt(self, kind) ==
    LET n == self.spec2d.val.shape[1]
        calls == [k \in 1..n |-> save_single_txt_call(self, k)]
    IN  IF save_txt_raises(kind)
        THEN {[ok |-> FALSE, ret |-> [written |-> <<>>], self |-> self]}
        ELSE IF Regular(self)
        THEN {[ok |-> TRUE, ret |-> [written |-> calls], self |-> self]}
        ELSE {[ok |-> FALSE, ret |-> [written |-> SubSeq(calls, 1, k - 1)], self |-> self] :
                k \in 1..n}
             \cup (IF Len(self.t.val.shape) = 1 /\ Size(self.t.val) >= n
                   THEN {[ok |-> TRUE, ret |-> [written |-> calls], self |-> self]}
                   ELSE {})

\* the outcomes of an analysis call on a dataset whose arrays are not of the
\* regular shape (the result of select_range with invert): what numpy makes
\* of them inside the call is not modelled, the call may raise or return and
\* fill its cache
Unmodelled(self, cache) ==
    {Fails(self),
     [ok |-> TRUE, ret |-> Fitted("unmodelled", <<>>),
      self |-> IF cache = "" THEN self
               ELSE [self EXCEPT ![cache] = Fitted("unmodelled", <<>>)]]}

(***************************************************************************)
(* The caller's inputs.                                                    *)
(***************************************************************************)
\* an axis as the caller passes it: the values 1..n in any order
Axes(max) == UNION {{s \in [1..n -> 1..n] : \A i, j \in 1..n : s[i] = s[j] => i = j} :
                    n \in 1..max}

\* the test signals, the value at waiting time t, probe pr, pump pu: a
\* negative peak along the diagonal, and a negative peak along the
\* anti-diagonal on a positive background (equal minima, a change of sign)
Signals == {"tilt", "anti"}

Signal(sig, t, pr, pu) ==
    IF sig = "tilt" THEN (IF pr = pu THEN -(10 * t + pu) ELSE -pr)
    ELSE (IF pr + pu = MaxWn + 1 THEN -10 * t ELSE 1)

\* the data array of shape (len(t), len(probe), len(pump)) sampled from a signal
Sampled(sig, t, pump, probe) ==
    LET a == [shape |-> <<Len(t), Len(probe), Len(pump)>>, data |-> <<>>]
    IN  [a EXCEPT !.data =
            [x \in 1..(Len(t) * Len(probe) * Len(pump)) |->
                R(Signal(sig, t[Idx3(a, x)[1]], probe[Idx3(a, x)[2]], pump[Idx3(a, x)[3]]))]]

\* arrays of a shape that is not (len(t), len(probe), len(pump))
Zeros(shape) == [shape |-> shape, data |-> [x \in 1..Prod(shape) |-> R(0)]]

WrongShapes(n, m, k) ==
    {sh \in {<<n, k, m>>, <<n, m, k + 1>>, <<n * m, k, 1>>, <<n * m * k + 1>>} :
        sh # <<n, m, k>>}

Slots == {"a", "b"}
other(x) == IF x = "a" THEN "b" ELSE "a"

\* the array ids a dataset holds, in field order
Refs(d) ==
    IF d = None THEN <<>>
    ELSE <<d.t, d.pump_wn, d.probe_wn, d.spec2d>>

\* The heap after an operation: the arrays nothing refers to any more are
\* dropped, and the ids (addresses, which carry no meaning) are renumbered in
\* the order caller arrays, dataset a, dataset b.  Objects that are shared
\* stay shared.
Roots(a, d) == <<a.t, a.pump_wn, a.probe_wn, a.spec2d>> \o Refs(d.a) \o Refs(d.b)

Canon(rs, id) == CHOOSE p \in 1..Len(rs) : rs[p] = id /\ \A q \in 1..(p - 1) : rs[q] # id

RenameDs(rs, d) ==
    IF d = None THEN None
    ELSE [d EXCEPT !.t = Canon(rs, d.t), !.pump_wn = Canon(rs, d.pump_wn),
                   !.probe_wn = Canon(rs, d.probe_wn), !.spec2d = Canon(rs, d.spec2d)]

Collect(m, a, d) ==
    LET rs == Roots(a, d)
    IN  [mem |-> [p \in {Canon(rs, rs[q]) : q \in 1..Len(rs)} |-> m[rs[p]]],
         ds  |-> [x \in Slots |-> RenameDs(rs, d[x])]]

\* The state after dataset obj (with handles) is bound to slot x: its new
\* arrays become objects of the heap.
ArrayFields == <<"t", "pump_wn", "probe_wn", "spec2d">>

Bound(m, a, d, x, obj) ==
    LET tmp(k) == IF obj[ArrayFields[k]].id = 0 THEN 3 * 4 + k
                  ELSE obj[ArrayFields[k]].id
        m2 == [id \in DOMAIN m \cup {tmp(k) : k \in 1..4} |->
                 IF \E k \in 1..4 : tmp(k) = id /\ obj[ArrayFields[k]].id = 0
                 THEN obj[ArrayFields[CHOOSE k \in 1..4 : tmp(k) = id]].val
                 ELSE m[id]]
        o2 == [obj EXCEPT !.t = tmp(1), !.pump_wn = tmp(2), !.probe_wn = tmp(3),
                          !.spec2d = tmp(4)]
    IN  Collect(m2, a, [d EXCEPT ![x] = o2])

\* info: Dict = {} in the class body is evaluated once: dicts[1] is that one
\* dict object; no dataset exists yet, no cls() is running, no FFCFResult
\* is held
NoInfo == 0
DefaultInfo == 1
EmptyDict == {}

Init ==
    /\ info = [a |-> NoInfo, b |-> NoInfo]
    /\ dicts = <<EmptyDict>>
    /\ pool = None
    /\ ffcf = None
    /\ \E t \in Axes(MaxT), pump \in Axes(MaxWn), probe \in Axes(MaxWn) :
       \E data \in {Sampled(sig, t, pump, probe) : sig \in Signals}
                  \cup {Zeros(sh) : sh \in WrongShapes(Len(t), Len(probe), Len(pump))} :
        /\ mem = <<Arr1(t), Arr1(pump), Arr1(probe), data>>
        /\ arg = [t |-> 1, pump_wn |-> 2, probe_wn |-> 3, spec2d |-> 4]
        /\ ds = [a |-> None, b |-> None]
        /\ cur = "a"
        /\ last = [op |-> "start", ok |-> TRUE, args |-> <<>>, ret |-> None]
        /\ steps = 0

\* ds = TwoDim(t, pump_wn, probe_wn, spec2d) on the caller's arrays; with
\* explicit the caller also passes info={}, a dict of its own, otherwise the
\* attribute is bound to the default object of the class
TwoDimWith(explicit) ==
    /\ last.op = "start"
    /\ \E r \in {attrs_post_init(Ref(mem, arg.t), Ref(mem, arg.pump_wn),
                                 Ref(mem, arg.probe_wn), Ref(mem, arg.spec2d))} :
         /\ \E c \in {IF r.ok THEN Bound(mem, arg, ds, "a", r.obj)
                      ELSE [mem |-> mem, ds |-> ds]} :
              ds' = c.ds /\ mem' = c.mem
         /\ last' = [op |-> "TwoDim", ok |-> r.ok, args |-> <<>>, ret |-> None]
         /\ info' = IF r.ok THEN [info EXCEPT !.a = IF explicit THEN Len(dicts) + 1
                                                         ELSE DefaultInfo]
                     ELSE info
    /\ dicts' = IF explicit THEN Append(dicts, EmptyDict) ELSE dicts
    /\ UNCHANGED <<arg, cur, steps, pool, ffcf>>

Construct == TwoDimWith(FALSE)

\* the caller applies one more operation to the dataset it works with
CanCall == steps < MaxOps /\ ds[cur] # None /\ pool = None

\* An operation that returns a dataset r.obj: the caller keeps the dataset
\* it called the operation on (the source) and goes on with the returned one.
\* On an error nothing is bound.
Returns(r, op, args) ==
    /\ \E c \in {IF r.ok THEN Bound(mem, arg, ds, other(cur), r.obj)
                 ELSE [mem |-> mem, ds |-> ds]} :
         ds' = c.ds /\ mem' = c.mem
    /\ cur' = IF r.ok THEN other(cur) ELSE cur
    /\ last' = [op |-> op, ok |-> r.ok, args |-> args, ret |-> None]
    /\ info' = IF r.ok THEN [info EXCEPT ![other(cur)] = DefaultInfo] ELSE info
    /\ steps' = steps + 1
    /\ UNCHANGED <<arg, dicts, pool, ffcf>>

\* the (pump_range, probe_range) arguments the model draws from: one point,
\* the whole grid with the endpoints reversed, a mixed box, nothing
RangePairs ==
    {<<<<1, 1>>, <<1, 1>>>>, <<<<MaxWn, 1>>, <<MaxWn, 1>>>>,
     <<<<MaxWn, MaxWn>>, <<1, MaxWn>>>>, <<<<0, 0>>, <<1, MaxWn>>>>}
\* (t_min, t_max); <<0, MaxT + 1>> stands for the defaults -inf, inf
TRanges == {<<1, 1>>, <<MaxT, 1>>, <<0, MaxT + 1>>}
\* excluded_range of background_correction
ExclRanges == {<<1, 1>>, <<0, 0>>}

Copy ==
    /\ CanCall
    /\ \E r \in {copy(Handles(mem, ds[cur]))} : Returns(r, "copy", <<>>)

SelectRange ==
    /\ CanCall
    /\ \E rp \in RangePairs, invert \in BOOLEAN :
         \E build \in IF invert /\ Size(mem[ds[cur].pump_wn]) * Size(mem[ds[cur].probe_wn]) = 0
                      THEN NumpyBuilds ELSE {"empty_is_error"} :
           \E r \in {select_range(Handles(mem, ds[cur]), rp[1], rp[2], invert, build)} :
             Returns(r, "select_range", <<rp[1], rp[2], invert>>)

SelectTRange ==
    /\ CanCall
    /\ \E tr \in TRanges :
         \E r \in {select_t_range(Handles(mem, ds[cur]), tr[1], tr[2])} :
           Returns(r, "select_t_range", tr)

ApplyFilter ==
    /\ CanCall
    /\ \E f \in FilterArgs :
         \E on_empty \in IF Size(mem[ds[cur].spec2d]) = 0 THEN BOOLEAN ELSE {TRUE} :
           \E r \in {apply_filter(Handles(mem, ds[cur]), f[1], f[2], on_empty)} :
             Returns(r, "apply_filter", f)

BackgroundCorrection ==
    /\ CanCall
    /\ \E excluded_range \in ExclRanges, deg \in Degs :
         \E r \in {background_correction(Handles(mem, ds[cur]), excluded_range, deg)} :
             /\ mem' = Store(mem, ds[cur].spec2d, r.val)
             /\ last' = [op |-> "background_correction", ok |-> r.ok,
                         args |-> <<excluded_range, deg>>, ret |-> None]
    /\ steps' = steps + 1
    /\ UNCHANGED <<arg, ds, cur, info, dicts, pool, ffcf>>

\* the caller writes into one of the arrays it passed to the constructor
Poison(a) == [a EXCEPT !.data = [i \in 1..Len(a.data) |->
                                   IF i = 1 THEN (IF Len(a.shape) = 1 THEN 9 ELSE R(9))
                                   ELSE a.data[i]]]

CallerWrite ==
    /\ CanCall
    /\ \E f \in {"t", "pump_wn", "probe_wn", "spec2d"} :
         /\ mem' = Store(mem, arg[f], Poison(mem[arg[f]]))
         /\ last' = [op |-> "caller_write", ok |-> TRUE, args |-> <<f>>, ret |-> None]
    /\ steps' = steps + 1
    /\ UNCHANGED <<arg, ds, cur, info, dicts, pool, ffcf>>

\* An analysis call on the current dataset with outcome r: the value goes to
\* the caller, the dataset keeps what the call stored in it.
Analysed(r, op, args) ==
    /\ ds' = [ds EXCEPT ![cur] = Cached(@, r.self)]
    /\ last' = [op |-> op, ok |-> r.ok, args |-> args, ret |-> r.ret]
    /\ steps' = steps + 1
    /\ UNCHANGED <<mem, arg, cur, info, dicts, pool, ffcf>>

self_ == Handles(mem, ds[cur])

\* the waiting times asked for: one below the axis, one on it
Times == {R(0), R(MaxT)}

SingleCls ==
    /\ CanCall
    /\ \E t \in Times, a \in ClsArgs :
         \E r \in IF Regular(self_) THEN {single_cls(self_, t, a[1], a[2])}
                  ELSE Unmodelled(self_, "single_cls_result_") :
           Analysed(r, "single_cls", <<t, a[1], a[2]>>)

Cls ==
    /\ CanCall
    /\ \E a \in ClsArgs, backend \in JoblibBackends :
         \E r \in IF Regular(self_) THEN {cls(self_, a[1], a[2], backend)}
                  ELSE Unmodelled(self_, "cls_result_") :
           Analysed(r, "cls", <<a[1], a[2]>>)

DiagAndAntidiag ==
    /\ CanCall
    /\ \E t \in Times, build \in ScipyBuilds :
         \E r \in IF Regular(self_) THEN {diag_and_antidiag(self_, t, build)}
                  ELSE {Fails(self_)} :
           Analysed(r, "diag_and_antidiag", <<t>>)

PumpSliceAmp ==
    /\ CanCall
    /\ \E t \in Times, bg_correct \in BOOLEAN :
         \E r \in IF Regular(self_) THEN {pump_slice_amp(self_, t, bg_correct)}
                  ELSE Unmodelled(self_, "") :
           Analysed(r, "pump_slice_amp", <<t, bg_correct>>)

IntegratePump ==
    /\ CanCall
    /\ \E rng \in {<<0, MaxWn + 1>>, <<1, 1>>} :
         \E r \in IF Regular(self_) THEN {integrate_pump(self_, rng[1], rng[2])}
                  ELSE Unmodelled(self_, "") :
           Analysed(r, "integrate_pump", rng)

IntegrateReg ==
    /\ CanCall
    /\ \E rng \in {<<<<MaxWn, 1>>, None>>, <<<<1, 1>>, <<1, MaxWn>>>>} :
         \E r \in IF Regular(self_) THEN {integrate_reg(self_, rng[1], rng[2])}
                  ELSE Unmodelled(self_, "") :
           Analysed(r, "integrate_reg", rng)

GetMinmax ==
    /\ CanCall
    /\ \E t \in Times, com \in {0, 1, 3} :
         \E r \in IF Regular(self_) THEN {get_minmax(self_, t, com)}
                  ELSE Unmodelled(self_, "") :
           Analysed(r, "get_minmax", <<t, com>>)

FitTaus ==
    /\ CanCall
    /\ \E taus \in Taus, lstsq_ok \in BOOLEAN :
         \E r \in IF Regular(self_) THEN {fit_taus(self_, taus, lstsq_ok)}
                  ELSE {Fails(self_)} :
           Analysed(r, "fit_taus", <<taus>>)

FitDas ==
    /\ CanCall
    /\ \E taus \in Taus, fix_last_decay \in BOOLEAN, lmfit_ok \in BOOLEAN :
         \E r \in IF Regular(self_) THEN {fit_das(self_, taus, fix_last_decay, lmfit_ok)}
                  ELSE {Fails(self_)} :
           Analysed(r, "fit_das", <<taus, fix_last_decay>>)

FitGauss ==
    /\ CanCall
    /\ \E fit \in BestFits, lmfit_ok \in BOOLEAN :
        \E stderrs \in IF lmfit_ok THEN [1..Len(self_.t.val.data) -> Stderrs]
                       ELSE {[i \in 1..Len(self_.t.val.data) |-> Unset]} :
         \E r \in IF Regular(self_) THEN {fit_gauss(self_, fit, lmfit_ok, stderrs)}
                  ELSE {[ok |-> FALSE, ret |-> None, self |-> self_, out |-> Fresh(<<>>)]} :
           /\ mem' = IF r.ok /\ r.out.id # 0 THEN Store(mem, r.out.id, r.out.val) ELSE mem
           /\ last' = [op |-> "fit_gauss", ok |-> r.ok, args |-> <<>>, ret |-> r.ret]
    /\ steps' = steps + 1
    /\ UNCHANGED <<arg, ds, cur, info, dicts, pool, ffcf>>

SaveTxt ==
    /\ CanCall
    /\ \E kind \in PathKinds :
         \E r \in save_txt(self_, kind) :
           Analysed(r, "save_txt", <<kind>>)

Next ==
    \/ Construct
    \/ CallerWrite
    \/ Copy
    \/ SelectRange
    \/ SelectTRange
    \/ ApplyFilter
    \/ BackgroundCorrection
    \/ SingleCls
    \/ Cls
    \/ DiagAndAntidiag
    \/ PumpSliceAmp
    \/ IntegratePump
    \/ IntegrateReg
    \/ GetMinmax
    \/ FitTaus
    \/ FitDas
    \/ FitGauss
    \/ SaveTxt

Spec == Init /\ [][Next]_vars

(***************************************************************************)
(* The info map: construction with or without info, the operations that   *)
(* build a dataset from a dataset, and writes into ds.info.                *)
(***************************************************************************)
InfoKeys == {"sample"}
InfoVals == {1, 2}

\* ds.info[key] = value: the dict object the attribute is bound to changes
dict_setitem(d, key, value) == {kv \in d : kv[1] # key} \cup {<<key, value>>}

ConstructInfo == \E explicit \in BOOLEAN : TwoDimWith(explicit)

InfoWrite ==
    /\ CanCall
    /\ \E key \in InfoKeys, value \in InfoVals :
         /\ dicts' = [dicts EXCEPT ![info[cur]] = dict_setitem(@, key, value)]
         /\ last' = [op |-> "info_setitem", ok |-> TRUE, args |-> <<key, value>>,
                     ret |-> None]
    /\ steps' = steps + 1
    /\ UNCHANGED <<mem, arg, ds, cur, info, pool, ffcf>>

NextInfo ==
    \/ ConstructInfo
    \/ Copy
    \/ SelectRange
    \/ SelectTRange
    \/ ApplyFilter
    \/ InfoWrite

SpecInfo == Init /\ [][NextInfo]_vars

(***************************************************************************)
(* FFCFResult.exp_fit: the result object of an FFCF determination and the  *)
(* fit of a sum of exponentials to its values.                             *)
(***************************************************************************)
NegInf == <<-1, 0>>

\* an lmfit parameter as far as the model follows it
Param(value, vary, min) == [value |-> value, vary |-> vary, min |-> min]

RMin(xs) == CHOOSE v \in {xs[i] : i \in 1..Len(xs)} : \A i \in 1..Len(xs) : RLe(v, xs[i])

\* the constant term held fixed in either case, at the smallest slope or at 0
const_param_fixed(slopes, use_const) ==
    IF use_const THEN Param(RMin(slopes), FALSE, NegInf)
    ELSE Param(R(0), FALSE, NegInf)

\* the parameter 'c' of the ConstantModel as mod.fit receives it: with
\* use_const it starts at max(min(slopes), 0) and keeps the default
\* vary=True; otherwise it is 0 with the hint vary=False
const_param(slopes, use_const) ==
    IF use_const THEN Param((IF RLt(RMin(slopes), R(0)) THEN R(0) ELSE RMin(slopes)),
                            TRUE, NegInf)
    ELSE Param(R(0), FALSE, NegInf)

\* the parameters of the exponentials: prefix 'a_', 'b_', ... in the order
\* of start_taus, decay = the start value, amplitude = 0.5 / len(start_taus),
\* both with the hint min=0
Prefixes == <<"a_", "b_">>

exp_params(start_taus) ==
    [i \in 1..Len(start_taus) |->
        [prefix |-> Prefixes[i],
         decay |-> Param(R(start_taus[i]), TRUE, R(0)),
         amplitude |-> Param(Rat(1, 2 * Len(start_taus)), TRUE, R(0))]]

\* what the minimizer does to a parameter: a fixed one keeps its value, a
\* varying one stays or moves, never below its lower bound
Outcomes == {"stay", "move"}

fitted(par, outcome) ==
    IF par.vary /\ outcome = "move" THEN [par EXCEPT !.value = RAdd(@, Rat(1, 4))]
    ELSE par

\* the number of varying parameters
nvarys(c, exps) == (IF c.vary THEN 1 ELSE 0) + 2 * Len(exps)

\* FFCFResult.exp_fit(start_taus, use_const, use_weights) as [ok, ret, self];
\* the least-squares routine refuses more varying parameters than points
exp_fit(self, start_taus, use_const, use_weights, outcome) ==
    LET c == const_param(self.slopes, use_const)
        exps == exp_params(start_taus)
        weights == IF self.slope_errors # Unset /\ use_weights
                   THEN [i \in 1..Len(self.slope_errors) |->
                            RDiv(R(1), self.slope_errors[i])]
                   ELSE Unset
        res == [init_params |-> [c |-> c, exps |-> exps],
                params |-> [c |-> fitted(c, outcome),
                            exps |-> [i \in 1..Len(exps) |->
                                        [exps[i] EXCEPT !.decay = fitted(@, outcome),
                                                        !.amplitude = fitted(@, outcome)]]],
                weights |-> weights]
    IN  IF nvarys(c, exps) > Len(self.slopes)
        THEN [ok |-> FALSE, ret |-> None, self |-> self]
        ELSE [ok |-> TRUE, ret |-> res, self |-> [self EXCEPT !.exp_fit_result_ = res]]

\* the values an FFCFResult is made of
SlopeVals == {R(-1), R(0), R(1)}

FFCFResults ==
    UNION {{[wt |-> [i \in 1..n |-> i], slopes |-> sl, slope_errors |-> er,
             exp_fit_result_ |-> None] :
               sl \in [1..n -> SlopeVals], er \in {Unset, [i \in 1..n |-> R(1)]}} :
           n \in 1..MaxSlopes}

InitFFCF ==
    /\ ffcf \in FFCFResults
    /\ mem = <<>>
    /\ arg = [t |-> 1, pump_wn |-> 2, probe_wn |-> 3, spec2d |-> 4]
    /\ ds = [a |-> None, b |-> None]
    /\ cur = "a"
    /\ last = [op |-> "start", ok |-> TRUE, args |-> <<>>, ret |-> None]
    /\ steps = 0
    /\ info = [a |-> NoInfo, b |-> NoInfo]
    /\ dicts = <<EmptyDict>>
    /\ pool = None

StartTaus == {<<1>>, <<1, 10>>}

ExpFit ==
    /\ steps < MaxOps
    /\ ffcf # None
    /\ \E start_taus \in StartTaus, use_const \in BOOLEAN, use_weights \in BOOLEAN,
          outcome \in Outcomes :
         \E r \in {exp_fit(ffcf, start_taus, use_const, use_weights, outcome)} :
           /\ ffcf' = r.self
           /\ last' = [op |-> "exp_fit", ok |-> r.ok,
                       args |-> <<start_taus, use_const, use_weights>>, ret |-> r.ret]
    /\ steps' = steps + 1
    /\ UNCHANGED <<mem, arg, ds, cur, info, dicts, pool>>

NextFFCF == ExpFit

SpecFFCF == InitFFCF /\ [][NextFFCF]_vars

(***************************************************************************)
(* The centre line slope: single_cls with fitted peak positions, on        *)
(* datasets with up to MaxPr probe points, and cls with its workers.       *)
(***************************************************************************)
\* the probe axes handed to the constructor: MaxPr points in ascending
\* order and out of order, and an axis too short for the fit of a peak
ProbeAxes == {[i \in 1..MaxPr |-> i], [i \in 1..MaxPr |-> (i % MaxPr) + 1], <<2, 1>>}

InitFit ==
    /\ info = [a |-> NoInfo, b |-> NoInfo]
    /\ dicts = <<EmptyDict>>
    /\ pool = None
    /\ ffcf = None
    /\ \E t \in Axes(MaxT), pump \in Axes(MaxWn), probe \in ProbeAxes, sig \in Signals :
        /\ mem = <<Arr1(t), Arr1(pump), Arr1(probe), Sampled(sig, t, pump, probe)>>
        /\ arg = [t |-> 1, pump_wn |-> 2, probe_wn |-> 3, spec2d |-> 4]
        /\ ds = [a |-> None, b |-> None]
        /\ cur = "a"
        /\ last = [op |-> "start", ok |-> TRUE, args |-> <<>>, ret |-> None]
        /\ steps = 0

SingleClsFit ==
    /\ CanCall
    /\ \E t \in Times, centre \in Centres,
          stderrs \in [1..Len(self_.pump_wn.val.data) -> CentreStderrs] :
         \E r \in IF Regular(self_)
                  THEN {single_cls_fit(self_, t, <<"float", 9>>, <<"float", 7>>, centre, stderrs)}
                  ELSE {Fails(self_)} :
           Analysed(r, "single_cls",
                    <<t, <<"float", 9>>, <<"float", 7>>, "fit", stderrs>>)

NextFit ==
    \/ Construct
    \/ SingleClsFit

SpecFit == InitFit /\ [][NextFit]_vars

\* the backends joblib.Parallel can run the calls on: the ones above, and
\* threads of this process (joblib.parallel_backend('threading') around the
\* call), which all work on the caller's self
PoolBackends == JoblibBackends \cup {"threads"}

\* r.bse of a regression result: the standard errors of its parameters, a
\* quantity of that regression which the model does not compute
bse(r) == [k \in 1..2 |-> Fitted("bse", <<r.params, k>>)]

\* r.predict(): the fitted line at the points of the regression
predict(r, x) == [j \in 1..Len(x) |-> RAdd(r.params[1], RMul(r.params[2], x[j]))]

\* the list handed back in the order in which the calls finished
joblib_results_as_completed(outcomes, order) ==
    [k \in 1..Len(order) |-> outcomes[order[k]].ret]

\* res = p(joblib.delayed(self.single_cls)(t, **cls_args) for t in self.t):
\* joblib returns the results in the order of the input, whatever the order
\* in which the calls finished
joblib_results(outcomes, order) ==
    [i \in 1..Len(outcomes) |-> outcomes[i].ret]

\* the loop of cls over res and the CLSResult built from it; max_pos_err is
\* 1 at every point under method 'com'
cls_result(self, res) ==
    [wt |-> self.t.val.data,
     slopes |-> [i \in 1..Len(res) |-> res[i].reg_result.params[2]],
     slope_errors |-> [i \in 1..Len(res) |-> bse(res[i].reg_result)[2]],
     lines |-> [i \in 1..Len(res) |->
                  [pump_wn |-> res[i].pump_wn, max_pos |-> res[i].max_pos,
                   max_pos_err |-> [j \in 1..Len(res[i].max_pos) |-> R(1)],
                   predict |-> predict(res[i].reg_result, res[i].recentered_pump_wn)]],
     intercepts |-> [i \in 1..Len(res) |-> res[i].reg_result.params[1]],
     intercept_errors |-> [i \in 1..Len(res) |-> bse(res[i].reg_result)[1]]]

\* a call that has not run yet
NotRun == [ok |-> FALSE, ret |-> None]

Finished(i) == \E k \in 1..Len(pool.order) : pool.order[k] = i
Raised_(i) == Finished(i) /\ ~pool.outcomes[i].ok

\* cls(**cls_args) enters the with block: the calls for all waiting times
\* are handed to joblib; the caller waits
ClsDispatch ==
    /\ CanCall
    /\ Regular(self_)
    /\ \E a \in ClsArgs, backend \in PoolBackends :
         pool' = [backend |-> backend, args |-> a, order |-> <<>>,
                  outcomes |-> [i \in 1..Len(self_.t.val.data) |-> NotRun]]
    /\ UNCHANGED <<mem, arg, ds, cur, last, steps, info, dicts, ffcf>>

\* one call self.single_cls(t[i], **cls_args) runs to its end.  In a worker
\* process self is a pickled copy, and the assignment to
\* self.single_cls_result_ stays there; in a thread, or run by the caller
\* itself, self is the caller's dataset.  The sequential backend runs the
\* calls in the order of the input and stops at the first that raises.
RunTask(i) ==
    /\ pool # None
    /\ ~Finished(i)
    /\ pool.backend = "sequential" =>
         (i = Len(pool.order) + 1 /\ \A k \in 1..Len(pool.outcomes) : ~Raised_(k))
    /\ \E r \in {single_cls(self_, R(self_.t.val.data[i]), pool.args[1], pool.args[2])} :
         /\ pool' = [pool EXCEPT !.outcomes[i] = [ok |-> r.ok, ret |-> r.ret],
                                 !.order = Append(@, i)]
         /\ ds' = IF pool.backend = "processes" THEN ds
                  ELSE [ds EXCEPT ![cur] = Cached(@, r.self)]
    /\ UNCHANGED <<mem, arg, cur, last, steps, info, dicts, ffcf>>

Worker ==
    /\ pool # None
    /\ \E i \in 1..Len(pool.outcomes) : RunTask(i)

\* the with block is left: an exception of a call reaches the caller, or
\* all calls have finished and cls builds its result
ClsReturn ==
    /\ pool # None
    /\ \/ \E i \in 1..Len(pool.outcomes) : Raised_(i)
       \/ Len(pool.order) = Len(pool.outcomes)
    /\ \E ret \in {IF \E i \in 1..Len(pool.outcomes) : Raised_(i) THEN None
                   ELSE cls_result(self_, joblib_results(pool.outcomes, pool.order))} :
         /\ ds' = IF ret = None THEN ds ELSE [ds EXCEPT ![cur].cls_result_ = ret]
         /\ last' = [op |-> "cls", ok |-> ret # None,
                     args |-> <<pool.args[1], pool.args[2], pool.backend, pool.order>>,
                     ret |-> ret]
    /\ pool' = None
    /\ steps' = steps + 1
    /\ UNCHANGED <<mem, arg, cur, info, dicts, ffcf>>

NextCls ==
    \/ Construct
    \/ ClsDispatch
    \/ Worker
    \/ ClsReturn

SpecCls == Init /\ [][NextCls]_vars

(***************************************************************************)
(* Properties.                                                             *)
(***************************************************************************)
CopyLike == {"copy", "select_range", "select_t_range", "apply_filter"}

\* the value of array field f of the dataset in slot x
Val(x, f) == mem[ds[x][f]]

\* after a copy-like operation that returned: the slot of its source
src == other(cur)

Ascending(a) == \A i, j \in 1..Len(a.data) : i < j => a.data[i] <= a.data[j]

\* the position of coordinate v on an axis of distinct values
Pos(a, v) == CHOOSE p \in 1..Len(a.data) : a.data[p] = v

\* C1: constructing a TwoDim raises the ValueError, and leaves no dataset,
\* exactly when spec2d.shape differs from (len(t), len(probe_wn),
\* len(pump_wn)); with the shape equal to that triple it yields a dataset.
C1_ShapeContract ==
    last.op = "TwoDim" =>
        /\ last.ok <=> mem[arg.spec2d].shape = <<Len(mem[arg.t].data),
                                                 Len(mem[arg.probe_wn].data),
                                                 Len(mem[arg.pump_wn].data)>>
        /\ last.ok <=> ds.a # None
        /\ ds.b = None

\* a construction refused although spec2d has the right number of elements
C1_Witness ==
    /\ last.op = "TwoDim" /\ ~last.ok
    /\ Size(mem[arg.spec2d]) = Size(mem[arg.t]) * Size(mem[arg.probe_wn])
                                 * Size(mem[arg.pump_wn])

\* C2: in every dataset reached by construction and any sequence of copy,
\* select_range, select_t_range, apply_filter and background_correction, the
\* axes t, pump_wn and probe_wn are each sorted ascending.
C2_AxesSorted ==
    \A x \in Slots : ds[x] # None =>
        Ascending(Val(x, "t")) /\ Ascending(Val(x, "pump_wn")) /\ Ascending(Val(x, "probe_wn"))

\* C3: construction is a pure reindex: the dataset has as many points on
\* each axis as the input, and the value it stores at the coordinates
\* (t, probe, pump) of every input cell is the value of that input cell.
C3_PureReindex ==
    last.op = "TwoDim" /\ last.ok =>
        LET it == mem[arg.t]
            ipu == mem[arg.pump_wn]
            ipr == mem[arg.probe_wn]
            isp == mem[arg.spec2d]
        IN  /\ Val("a", "spec2d").shape = isp.shape
            /\ Len(Val("a", "t").data) = Len(it.data)
            /\ Len(Val("a", "pump_wn").data) = Len(ipu.data)
            /\ Len(Val("a", "probe_wn").data) = Len(ipr.data)
            /\ \A i \in 1..Len(it.data), j \in 1..Len(ipr.data), k \in 1..Len(ipu.data) :
                 /\ \E p \in 1..Len(it.data) : Val("a", "t").data[p] = it.data[i]
                 /\ \E p \in 1..Len(ipr.data) : Val("a", "probe_wn").data[p] = ipr.data[j]
                 /\ \E p \in 1..Len(ipu.data) : Val("a", "pump_wn").data[p] = ipu.data[k]
                 /\ At3(Val("a", "spec2d"), Pos(Val("a", "t"), it.data[i]),
                        Pos(Val("a", "probe_wn"), ipr.data[j]),
                        Pos(Val("a", "pump_wn"), ipu.data[k])) = At3(isp, i, j, k)

\* a dataset constructed from pump and probe axes that were both out of order
C3_Witness ==
    /\ last.op = "TwoDim" /\ last.ok
    /\ ~Ascending(mem[arg.pump_wn]) /\ ~Ascending(mem[arg.probe_wn])
    /\ Len(mem[arg.t].data) > 1

\* C4: in every dataset reached by construction and any sequence of copy,
\* select_range (invert false or true), select_t_range, apply_filter and
\* background_correction that returned without error, spec2d has three
\* dimensions, of lengths (len(t), len(probe_wn), len(pump_wn)), and every
\* axis has one dimension.
C4_ShapeInvariant ==
    \A x \in Slots : ds[x] # None =>
        /\ Len(Val(x, "t").shape) = 1
        /\ Len(Val(x, "pump_wn").shape) = 1
        /\ Len(Val(x, "probe_wn").shape) = 1
        /\ Val(x, "spec2d").shape = <<Val(x, "t").shape[1], Val(x, "probe_wn").shape[1],
                                      Val(x, "pump_wn").shape[1]>>

\* the step taken was a copy-like operation that returned a dataset: the
\* source is the dataset in slot cur, the result the one in slot cur'
CopyLikeStep == last'.op \in CopyLike /\ last'.ok /\ cur' # cur

Arrays == {"t", "pump_wn", "probe_wn", "spec2d"}

\* C5: copy, select_range, select_t_range and apply_filter leave the values
\* of the source's t, pump_wn, probe_wn and spec2d as they were and return a
\* dataset none of whose arrays is an array of the source; and no operation
\* other than background_correction changes the values of the spec2d of a
\* dataset that exists before and after it.
C5_Frame ==
    [][/\ CopyLikeStep =>
            /\ \A f \in Arrays : mem'[ds'[cur][f]] = mem[ds[cur][f]]
            /\ \A f, g \in Arrays : ds'[cur'][f] # ds'[cur][g]
       /\ \A x \in Slots :
            (ds[x] # None /\ ~(CopyLikeStep /\ x = cur')
               /\ mem'[ds'[x].spec2d] # mem[ds[x].spec2d])
            => last'.op = "background_correction"]_vars

\* a copy was made and background_correction changed the copy only
C5_Witness ==
    /\ last.op = "background_correction" /\ last.ok
    /\ ds.a # None /\ ds.b # None
    /\ Val("a", "spec2d") = mem[arg.spec2d]
    /\ Val("b", "spec2d") # Val("a", "spec2d")

\* C6: a write by the caller into an array it passed to the constructor
\* changes no array of any dataset, and background_correction on a dataset
\* changes none of the caller's arrays.
C6_NoAliasing ==
    [][/\ last'.op = "caller_write" =>
            \A x \in Slots : ds[x] # None =>
                \A f \in Arrays : mem'[ds'[x][f]] = mem[ds[x][f]]
       /\ last'.op = "background_correction" =>
            \A f \in Arrays : mem'[arg'[f]] = mem[arg[f]]]_vars

\* the caller has overwritten a waiting time it had passed in, and the
\* dataset still has the old one
C6_Witness ==
    /\ last.op = "caller_write" /\ last.args = <<"t">>
    /\ ds.a # None
    /\ mem[arg.t].data[1] = 9
    /\ Val("a", "t").data[1] # 9

Caches == {"interpolator_", "single_cls_result_", "cls_result_", "exp_fit_result_",
           "fit_exp_result_"}

\* C7: the dataset returned by copy, select_range, select_t_range or
\* apply_filter has interpolator_, single_cls_result_, cls_result_ and
\* exp_fit_result_ (and fit_exp_result_) empty whatever the source holds, and
\* an operation on one dataset leaves these fields of the other dataset as
\* they were.
C7_NoCachesCarried ==
    [][/\ CopyLikeStep => \A c \in Caches : ds'[cur'][c] = None
       /\ ~CopyLikeStep =>
            \A x \in Slots : (x # cur /\ ds[x] # None) =>
                \A c \in Caches : ds'[x][c] = ds[x][c]]_vars

\* a copy-like operation has returned from a source that holds results
C7_Witness ==
    /\ last.op \in CopyLike /\ last.ok
    /\ ds[src].single_cls_result_ # None
    /\ ds[cur].single_cls_result_ = None

\* whether value v lies in the closed range between the two endpoints of r
Within(r, v) == Min2(r) <= v /\ v <= Max2(r)

\* the values of an axis within r, in axis order
Kept(axis, r) == SelectSeq(axis.data, LAMBDA v : Within(r, v))

\* C8: select_range(pump_range, probe_range) without invert returns a dataset
\* whose pump_wn (probe_wn) is the source's pump (probe) values v with
\* min(range) <= v <= max(range), in the source's order, whichever endpoint
\* is given first; its data at every retained (t, probe, pump) coordinate is
\* the source's; and when the ranges hold the whole axes, its axes and data
\* equal the source's.
C8_SelectRange ==
    (last.op = "select_range" /\ last.ok /\ ~last.args[3]) =>
        /\ Val(cur, "pump_wn") = Arr1(Kept(Val(src, "pump_wn"), last.args[1]))
        /\ Val(cur, "probe_wn") = Arr1(Kept(Val(src, "probe_wn"), last.args[2]))
        /\ Val(cur, "t") = Val(src, "t")
        /\ Val(cur, "spec2d").shape = <<Size(Val(cur, "t")), Size(Val(cur, "probe_wn")),
                                        Size(Val(cur, "pump_wn"))>>
        /\ \A i \in 1..Size(Val(cur, "t")), j \in 1..Size(Val(cur, "probe_wn")),
              k \in 1..Size(Val(cur, "pump_wn")) :
             At3(Val(cur, "spec2d"), i, j, k) =
                At3(Val(src, "spec2d"), i,
                    Pos(Val(src, "probe_wn"), Val(cur, "probe_wn").data[j]),
                    Pos(Val(src, "pump_wn"), Val(cur, "pump_wn").data[k]))
        /\ ((\A k \in 1..Size(Val(src, "pump_wn")) :
                 Within(last.args[1], Val(src, "pump_wn").data[k]))
            /\ (\A j \in 1..Size(Val(src, "probe_wn")) :
                 Within(last.args[2], Val(src, "probe_wn").data[j])))
           => \A f \in Arrays : Val(cur, f) = Val(src, f)

\* the whole of a two-by-two grid was selected with the larger endpoint of
\* each range given first
C8_Witness ==
    /\ last.op = "select_range" /\ last.ok /\ ~last.args[3]
    /\ last.args[1][1] > last.args[1][2] /\ last.args[2][1] > last.args[2][2]
    /\ Size(Val(cur, "pump_wn")) = 2 /\ Size(Val(cur, "probe_wn")) = 2

\* the dataset select_range was last called on
Source == IF last.ok THEN other(cur) ELSE cur

\* C9: select_range(pump_range, probe_range, invert=True) returns what
\* select_range(pump_range, probe_range, invert=False) returns, the same axes
\* and data.
C9_InvertNoEffect ==
    (last.op = "select_range" /\ last.args[3]) =>
        \A r \in {select_range(Handles(mem, ds[Source]), last.args[1], last.args[2],
                               FALSE, "empty_is_error")} :
            /\ last.ok = r.ok
            /\ last.ok => \A f \in Arrays : Val(cur, f) = r.obj[f].val

\* C10: the slope of the SingleCLSResult that single_cls(t, ...) returns is
\* the coefficient of the recentered pump coordinate in the regression, and
\* equals cls(...).slopes[i] for the waiting time t[i] the call analysed.
C10_SlopeIsSlope ==
    (last.op = "single_cls" /\ last.ok /\ Regular(Handles(mem, ds[cur]))) =>
        /\ last.ret.slope = last.ret.reg_result.params[2]
        /\ \A r \in {cls(Handles(mem, ds[cur]), last.args[2], last.args[3], "processes")} :
             r.ok => last.ret.slope = r.ret.slopes[t_idx(Handles(mem, ds[cur]), last.args[1])]

\* C11: in single_cls with fitted peak positions, a stderr the fit does not
\* report is recorded as NaN; the regression is the weighted one, with
\* weights 1 / error^2, exactly when every recorded error is finite, and the
\* unweighted one otherwise; whether the call returns does not depend on
\* the errors reported.
C11_WeightedIffFinite ==
    (last.op = "single_cls" /\ Len(last.args) = 5) =>
        /\ last.ok = ~locator_raises(self_, last.args[1], last.args[2], last.args[3])
        /\ last.ok =>
             LET ret == last.ret
                 reported == last.args[5]
                 n == Len(ret.max_pos)
             IN  /\ Len(ret.max_pos_err) = n
                 /\ \A j \in 1..n :
                      ret.max_pos_err[j] = IF reported[j] = Unset THEN NaN ELSE reported[j]
                 /\ IF \A j \in 1..n : reported[j] # Unset
                    THEN /\ ret.reg_result.model = "WLS"
                         /\ \A j \in 1..n :
                              ret.reg_result.weights[j] =
                                  RDiv(R(1), RMul(reported[j], reported[j]))
                    ELSE ret.reg_result.model = "OLS"

\* single_cls has returned from a waiting time at which one slice came with
\* an error and another without
C11_Witness ==
    /\ last.op = "single_cls" /\ Len(last.args) = 5 /\ last.ok
    /\ \E j, k \in 1..Len(last.ret.max_pos) :
         last.ret.max_pos_err[j] = NaN /\ isfinite(last.ret.max_pos_err[k])
    /\ last.ret.reg_result.model = "OLS"

\* C12: when cls returns, every sequence of its result has one entry per
\* waiting time, wt is the t axis of the dataset, and entry i is what
\* single_cls gives for t[i], in whatever order the calls finished.
C12_RowsByInputIndex ==
    (last.op = "cls" /\ Len(last.args) = 4 /\ last.ok) =>
        LET t == self_.t.val.data
            ret == last.ret
        IN  /\ ret.wt = t
            /\ \A f \in {"slopes", "slope_errors", "intercepts", "intercept_errors",
                         "lines"} : Len(ret[f]) = Len(t)
            /\ \A i \in 1..Len(t) :
                 \E c \in {single_cls(self_, R(t[i]), last.args[1], last.args[2])} :
                   /\ c.ok
                   /\ ret.slopes[i] = c.ret.reg_result.params[2]
                   /\ ret.intercepts[i] = c.ret.reg_result.params[1]
                   /\ ret.slope_errors[i] = bse(c.ret.reg_result)[2]
                   /\ ret.intercept_errors[i] = bse(c.ret.reg_result)[1]
                   /\ ret.lines[i].pump_wn = c.ret.pump_wn
                   /\ ret.lines[i].max_pos = c.ret.max_pos
                   /\ ret.lines[i].predict =
                          predict(c.ret.reg_result, c.ret.recentered_pump_wn)

\* cls has returned after its calls finished in another order than that of
\* the waiting times, with rows that differ between the waiting times
C12_Witness ==
    /\ last.op = "cls" /\ Len(last.args) = 4 /\ last.ok
    /\ \E k \in 1..(Len(last.args[4]) - 1) : last.args[4][k] > last.args[4][k + 1]
    /\ \E i, j \in 1..Len(last.ret.lines) : last.ret.lines[i] # last.ret.lines[j]

\* C13: while cls runs, a call of single_cls for one waiting time writes no
\* field of the caller's dataset: every step of a worker leaves the dataset
\* as it was.
C13_WorkersShareNothing ==
    [][(pool # None /\ pool' # None) => ds' = ds]_vars

\* the probe coordinates single_cls averages over in the slice at pump
\* index pu_i: the window around the slice's minimum
WindowCoords(self, ti, pu_i, pr_range) ==
    LET pr == self.probe_wn.val
        s == probe_line(self.spec2d.val, ti, pu_i)
    IN  {pr.data[i] : i \in {k \in 1..Len(pr.data) : window(pr, pr.data[argmin(s)], pr_range)[k]}}

\* the smallest signal of the slice at index ti
SliceMin(sp, ti) ==
    CHOOSE v \in {At3(sp, ti, q, u) : q \in 1..sp.shape[2], u \in 1..sp.shape[3]} :
        \A q \in 1..sp.shape[2], u \in 1..sp.shape[3] : RLe(v, At3(sp, ti, q, u))

\* C14: with offset and p left out, the point (probe = p, pump = p + offset),
\* where the diagonal and the anti-diagonal returned by diag_and_antidiag
\* cross, is a grid point at which the slice nearest t has its global minimum.
C14_ThroughMinimum ==
    (last.op = "diag_and_antidiag" /\ last.ok) =>
        LET pr == self_.probe_wn.val.data
            pu == self_.pump_wn.val.data
            sp == self_.spec2d.val
            ti == t_idx(self_, last.args[1])
        IN  \E q \in 1..Len(pr), u \in 1..Len(pu) :
              /\ pr[q] = last.ret.p
              /\ pu[u] = last.ret.p + last.ret.offset
              /\ At3(sp, ti, q, u) = SliceMin(sp, ti)

\* the parameters other than the constant: every decay and amplitude has the
\* lower bound zero and a value that is not below it
NonNegative(params) ==
    \A i \in 1..Len(params.exps) :
        \A f \in {"decay", "amplitude"} :
            /\ params.exps[i][f].min = R(0)
            /\ RLe(R(0), params.exps[i][f].value)

\* C15 as stated: in exp_fit the constant term never varies: with use_const
\* it is fixed at the smallest slope, without it is fixed at zero; all
\* amplitudes and decays are bounded below by zero.
C15_ConstNeverVaries ==
    (last.op = "exp_fit" /\ last.ok) =>
        /\ ~last.ret.params.c.vary
        /\ last.ret.params.c.value = IF last.args[2] THEN RMin(ffcf.slopes) ELSE R(0)
        /\ NonNegative(last.ret.params)

\* C15 amended: with use_const the constant term starts at the larger of
\* the smallest slope and zero and is a free parameter of the fit; without
\* use_const it is fixed at zero; all amplitudes and decays are bounded
\* below by zero; the result is kept in exp_fit_result_.
C15_ConstTerm ==
    (last.op = "exp_fit" /\ last.ok) =>
        LET init == last.ret.init_params
            par == last.ret.params
            floor == IF RLt(RMin(ffcf.slopes), R(0)) THEN R(0) ELSE RMin(ffcf.slopes)
        IN  /\ last.args[2] => (par.c.vary /\ init.c.value = floor)
            /\ ~last.args[2] => (~par.c.vary /\ par.c.value = R(0) /\ init.c.value = R(0))
            /\ NonNegative(init) /\ NonNegative(par)
            /\ ffcf.exp_fit_result_ = last.ret

\* a fit with use_const has returned a constant term that left its start
\* value, on slopes whose minimum is negative
C15_Witness ==
    /\ last.op = "exp_fit" /\ last.ok /\ last.args[2]
    /\ last.ret.params.c.value # last.ret.init_params.c.value
    /\ RLt(RMin(ffcf.slopes), R(0))

\* C16: for every waiting time and every parameter fit_gauss records the
\* stderr the optimizer reported, unchanged, and +inf exactly when the
\* optimizer reported none; every series has one entry per waiting time.
C16_StderrRecorded ==
    (last.op = "fit_gauss" /\ last.ok) =>
        LET n == Len(self_.t.val.data)
            res == last.ret.results
            rec == [corr |-> last.ret.val_dict.corr_stderr, k |-> last.ret.val_dict.k_stderr]
        IN  \A pname \in GaussParams :
              /\ Len(rec[pname]) = n
              /\ \A i \in 1..n :
                   rec[pname][i] = IF res[i][pname].stderr = Unset THEN Inf
                                   ELSE res[i][pname].stderr

\* C17: save_txt on a path that exists and is not a directory raises with no
\* save_single_txt call made; when save_txt returns it has called
\* save_single_txt exactly once for every waiting-time index 0, 1, ...,
\* spec2d.shape[0] - 1, in ascending order.
C17_SaveTxt ==
    (last.op = "save_txt") =>
        /\ last.args[1] = "file" => (~last.ok /\ last.ret.written = <<>>)
        /\ last.ok =>
             /\ Len(last.ret.written) = self_.spec2d.val.shape[1]
             /\ \A k \in 1..Len(last.ret.written) : last.ret.written[k].i = k - 1

\* save_txt has refused a file on a dataset with more than one waiting time
C17_Witness ==
    /\ last.op = "save_txt"
    /\ last.args[1] = "file"
    /\ ~last.ok
    /\ self_.spec2d.val.shape[1] >= 2

\* C18: every centre-of-mass position returned by single_cls (method 'com')
\* lies between the smallest and the largest probe coordinate of the window
\* it was averaged over.
C18_ComWithinWindow ==
    (last.op = "single_cls" /\ last.ok) =>
        LET pu == self_.pump_wn.val.data
            ti == t_idx(self_, last.args[1])
        IN  \A j \in 1..Len(last.ret.max_pos), u \in 1..Len(pu) :
              (RLe(R(pu[u]), last.ret.pump_wn[j]) /\ RLe(last.ret.pump_wn[j], R(pu[u]))) =>
                \E lo, hi \in WindowCoords(self_, ti, u, last.args[2]) :
                    /\ RLe(R(lo), last.ret.max_pos[j])
                    /\ RLe(last.ret.max_pos[j], R(hi))

\* C19: after fit_das has returned, the declared field exp_fit_result_ of the
\* dataset holds the result that was returned.
C19_DeclaredFieldHoldsResult ==
    (last.op = "fit_das" /\ last.ok) => ds[cur].exp_fit_result_ = last.ret

\* C20: the info map is per instance: two datasets that exist at the same
\* time, neither of which was given an info map of the caller's, hold
\* distinct map objects (the source and the result of copy, select_range,
\* select_t_range and apply_filter included).
C20_InfoPerInstance ==
    (ds.a # None /\ ds.b # None) => info.a # info.b

====
